---- MODULE Spec2Model ----
(***************************************************************************)
(* GM17 parameter generation (src/src/generator.rs).                       *)
(*                                                                         *)
(* The scalar field is the prime field F_P, P = 3*2^12 + 1.  Both groups   *)
(* G1 and G2 are the cyclic group of order P, written additively.  A       *)
(* group element in internal (projective) form is a pair <<X, Z>>, Z # 0,  *)
(* standing for X/Z; the canonical (affine) form is the number X/Z itself. *)
(* The windowed fixed-base engine, the evaluation domain, the randomness   *)
(* source and the SAP reducer are collaborators of generator.rs.           *)
(***************************************************************************)
EXTENDS Integers, Sequences, FiniteSets, TLC

\* ---------------------------------------------------------------- bounds
MaxInputs == 2
MaxSapVariables == 2
MaxInvocations == 2

\* ------------------------------------------------------ the scalar field
P == 3 * 2^12 + 1

FAdd(x, y) == (x + y) % P
FSub(x, y) == (x + P - y) % P
FMul(x, y) == (x * y) % P
FSquare(x) == (x * x) % P
FDouble(x) == (x + x) % P

RECURSIVE FPow(_, _)
FPow(b, e) ==
    IF e = 0 THEN 1
    ELSE IF e % 2 = 0 THEN FPow(FSquare(b), e \div 2)
    ELSE FMul(b, FPow(FSquare(b), e \div 2))

FInv(x) == FPow(x, P - 2)

\* -------------------------------------------------------------- the groups
GZero == <<0, 1>>
FromAffine(x) == <<x, 1>>
\* into_affine / normalize_batch: divide out the projective coordinate
IntoAffine(p) == FMul(p[1], FInv(p[2]))
NormalizeBatch(v) == [i \in 1 .. Len(v) |-> IntoAffine(v[i])]
\* projective addition
GAdd(p, q) == <<FAdd(FMul(p[1], q[2]), FMul(q[1], p[2])), FMul(p[2], q[2])>>
\* mixed addition: res += &affine
GAddAffine(p, x) == <<FAdd(p[1], FMul(x, p[2])), p[2]>>
GDoubleInPlace(p) == GAdd(p, p)
\* g.mul(&s): the group's own scalar multiplication
GMul(p, s) == <<FMul(p[1], s), p[2]>>

RECURSIVE DoubleTimes(_, _)
DoubleTimes(p, n) == IF n = 0 THEN p ELSE DoubleTimes(GDoubleInPlace(p), n - 1)

\* ---------------------------------------------------- the randomness source
RngModulus == 2^16 + 1
NextRng(x) == (x * 75 + 74) % RngModulus
\* E::ScalarField::rand(rng): the value drawn from the advanced state
FieldOf(x) == x % P
\* E::G1::rand(rng), E::G2::rand(rng): a group element in projective form
GroupOf(x) == <<x % P, 1 + (x % 2)>>

\* ------------------------------------------------ the evaluation domain
RECURSIVE NextPowerOfTwo(_, _)
NextPowerOfTwo(n, k) == IF k >= n THEN k ELSE NextPowerOfTwo(n, 2 * k)

RECURSIVE Log2Ceil(_, _)
\* ark_std::log2: the least l with 2^l >= n
Log2Ceil(n, l) == IF 2^l >= n THEN l ELSE Log2Ceil(n, l + 1)

RECURSIVE TwoAdicValuation(_)
TwoAdicValuation(n) == IF n % 2 = 1 THEN 0 ELSE 1 + TwoAdicValuation(n \div 2)

\* the bit length of the modulus, and the 2-adicity of the field
MODULUS_BIT_SIZE == Log2Ceil(P + 1, 0)
TWO_ADICITY == TwoAdicValuation(P - 1)

\* D::new(domain_size): the size of the domain, or 0 for None
DomainNew(domain_size) ==
    LET size == NextPowerOfTwo(domain_size, 1)
    IN  IF Log2Ceil(size, 0) > TWO_ADICITY THEN 0 ELSE size

\* Z(t) for the domain of the given size
VanishingPoly(size, t) == FSub(FPow(t, size), 1)

RECURSIVE SampleOutside(_, _, _)
\* domain.sample_element_outside_domain(rng): draws until Z(t) # 0;
\* the result is <<t, rng state after the call, number of draws>>
SampleOutside(size, r, n) ==
    LET r2 == NextRng(r)
    IN  IF VanishingPoly(size, FieldOf(r2)) # 0
        THEN <<FieldOf(r2), r2, n + 1>>
        ELSE SampleOutside(size, r2, n + 1)

\* ------------------------------------- the windowed fixed-base MSM engine
scalar_bits == 12

LnWithoutFloats(n) == (Log2Ceil(n, 0) * 69) \div 100
GetMulWindowSize(num_scalars) ==
    IF num_scalars < 32 THEN 3 ELSE LnWithoutFloats(num_scalars)

Outerc(scalar_size, window) == (scalar_size + window - 1) \div window

\* FixedBase::get_window_table: level outer holds inner * 2^(outer*window) * g
\* for inner < cur_in_window and the identity above it, in affine form
GetWindowTable(scalar_size, window, base) ==
    LET in_window == 2^window
        outerc == Outerc(scalar_size, window)
        last_in_window == 2^(scalar_size - (outerc - 1) * window)
    IN  [outer \in 1 .. outerc |->
            LET g_outer == DoubleTimes(base, (outer - 1) * window)
                cur_in_window == IF outer = outerc THEN last_in_window ELSE in_window
            IN  [inner \in 1 .. in_window |->
                    IF inner - 1 < cur_in_window
                    THEN IntoAffine(GMul(g_outer, inner - 1))
                    ELSE 0]]

\* scalar.into_bigint().to_bits_le()[k]
Bit(s, k) == (s \div 2^k) % 2

RECURSIVE Digit(_, _, _, _)
\* the window-bit digit of scalar s at level outer (0-based), bits i .. window-1
Digit(s, outer, window, i) ==
    IF i = window THEN 0
    ELSE (IF outer * window + i < MODULUS_BIT_SIZE /\ Bit(s, outer * window + i) = 1
          THEN 2^i ELSE 0)
         + Digit(s, outer, window, i + 1)

RECURSIVE WindowedAcc(_, _, _, _, _)
WindowedAcc(res, outer, outerc, window_table, sw) ==
    IF outer = outerc THEN res
    ELSE WindowedAcc(
            GAddAffine(res, window_table[outer + 1][Digit(sw[1], outer, sw[2], 0) + 1]),
            outer + 1, outerc, window_table, sw)

\* FixedBase::windowed_mul
WindowedMul(outerc, window, window_table, scalar) ==
    WindowedAcc(FromAffine(window_table[1][1]), 0, outerc, window_table,
                <<scalar, window>>)

\* FixedBase::msm
Msm(scalar_size, window, window_table, v) ==
    [i \in 1 .. Len(v) |->
        WindowedMul(Outerc(scalar_size, window), window, window_table, v[i])]

\* ------------------------------------------------------------ the inputs
\* a circuit: what synthesis reports, whether the SAP reducer succeeds on it,
\* the number of variables the reducer reports for it, and the SAP
\* polynomials of the instance.  The generator takes the reducer's count as
\* it comes (82), so the count is drawn independently of num_inputs.
TooManyConstraints == 2^11
ConstraintCounts == {0, 1, 14, TooManyConstraints}
Shapes == {1, 2}

Circuits ==
    {cc \in [num_inputs : 1 .. MaxInputs, num_constraints : ConstraintCounts,
              sap_num_variables : 0 .. MaxSapVariables, shape : Shapes,
              synth_ok : BOOLEAN, reducer_ok : BOOLEAN] :
        cc.synth_ok \/ (cc.sap_num_variables = 0 /\ cc.shape = 1
                            /\ cc.num_constraints = 1
                            /\ cc.reducer_ok)}

Alphas == {2, 5000}
Betas == {3}
Gammas == {1, 7}
G1Elements == {<<1, 1>>, <<10, 2>>}
G2Elements == {<<3, 1>>}
RngStates == {25340, 7, 24638}

\* --------------------------------------------------------- the SAP reducer
\* the SAP polynomials a_i, c_i of a circuit, as <<constant, linear>> coefficients
APoly(shape, i) == <<((i + shape) % 3) * 2500, ((i + shape) % 3) % 2>>
CPoly(shape, i) == <<((2 * i + shape) % 4) * 1100, (i + 1) % 2>>
PolyEval(poly, x) == FAdd(poly[1], FMul(poly[2], x))

\* R1CStoSAP::instance_map_with_evaluation(cs, &t)
InstanceMapWithEvaluation(cc, size, x) ==
    LET n == cc.sap_num_variables
    IN  [a |-> [i \in 1 .. n + 1 |-> PolyEval(APoly(cc.shape, i - 1), x)],
         c |-> [i \in 1 .. n + 1 |-> PolyEval(CPoly(cc.shape, i - 1), x)],
         zt |-> VanishingPoly(size, x),
         sap_num_variables |-> n,
         m_raw |-> size]

\* ------------------------------------------------------------- the state
VARIABLES
    circuit, entry,
    alpha, beta, gamma, g, h,
    rng, seed, pc, log, invocation,
    num_inputs, num_constraints, domain, t,
    a, c, zt, sap_num_variables, m_raw,
    non_zero_a,
    g_window, g_table, h_gamma_window, h_gamma_table,
    a_query, g_gamma2_z_t, result, verifier_query, c_query_1, c_query_2, b_query,
    elems, vk, ret, pk,
    first

inputV == <<circuit, entry>>
trapV == <<alpha, beta, gamma, g, h>>
csV == <<num_inputs, num_constraints, domain>>
sapV == <<a, c, zt, sap_num_variables, m_raw>>
tableV == <<g_window, g_table, h_gamma_window, h_gamma_table>>
queryV == <<a_query, g_gamma2_z_t, result, verifier_query, c_query_1, c_query_2, b_query>>
outV == <<vk, ret, pk>>

vars == <<inputV, trapV, rng, seed, pc, log, invocation, csV, t, sapV, non_zero_a,
          tableV, queryV, elems, outV, first>>

\* ------------------------------------------ generate_parameters: pure steps
DomainSize(nc, ni) == 2 * nc + 2 * ni - 1

\* the density of the A-query
NonZeroA(av, n) == Cardinality({i \in 1 .. n : av[i] # 0})

\* the number of scalars the G1 window is sized for
GWindowScalars(ni, nza, n, m) == ni + nza + (n - (ni - 1)) + n + 1 + m + 1

AQueryScalars(av, gm) == [i \in 1 .. Len(av) |-> FMul(av[i], gm)]

GammaZ(z, gm) == FMul(z, gm)
AlphaBeta(al, be) == FAdd(al, be)
\* mutant: the factor gamma is left out
AbGammaZWithoutGamma(ab, gm, z) == FMul(ab, z)
AbGammaZ(ab, gm, z) == FMul(FMul(ab, gm), z)
Gamma2ZT(gz, gm) == FMul(gz, gm)
DoubleGamma2Z(z, gm) == FDouble(FMul(z, FSquare(gm)))

\* mutant: the point is drawn again from the randomness source
Gamma2ZTScalarsResampled(g2zt, x, m) ==
    [i \in 1 .. m + 1 |-> FMul(g2zt, FPow(FieldOf(NextRng(rng)), i - 1))]

Gamma2ZTScalars(g2zt, x, m) == [i \in 1 .. m + 1 |-> FMul(g2zt, FPow(x, i - 1))]

\* mutant: the batch stops one index short
C1BatchLenShort(n) == n
C1BatchLen(n) == n + 1
C1Scalars(av, cv, gm, ab, n) ==
    [i \in 1 .. C1BatchLen(n) |-> FAdd(FMul(cv[i], gm), FMul(av[i], ab))]

\* mutant: the batch stops one index short
C2BatchLenShort(n) == n
C2BatchLen(n) == n + 1
C2Scalars(av, dg2z, n) == [i \in 1 .. C2BatchLen(n) |-> FMul(av[i], dg2z)]

\* mutant: the split is made one element early
SplitAtOffByOne(v, mid) == <<SubSeq(v, 1, mid - 1), SubSeq(v, mid, Len(v))>>

\* result.split_at(mid)
SplitAt(v, mid) == <<SubSeq(v, 1, mid), SubSeq(v, mid + 1, Len(v))>>

\* an Option is the empty set (None) or a singleton (Some)
None == {}
Some(x) == {x}
Unwrap(o) == CHOOSE x \in o : TRUE

NoElems ==
    [gamma_z |-> 0, alpha_beta |-> 0, ab_gamma_z |-> 0,
     g_gamma |-> GZero, g_gamma_z |-> GZero, h_gamma |-> GZero,
     h_gamma_z |-> GZero, g_ab_gamma_z |-> GZero, g_gamma2_z2 |-> GZero]

\* the locals of generate_parameters before the body has run
FreshLocals ==
    /\ num_inputs = 0 /\ num_constraints = 0 /\ domain = 0 /\ t = 0
    /\ a = <<>> /\ c = <<>> /\ zt = 0 /\ sap_num_variables = 0 /\ m_raw = 0
    /\ non_zero_a = 0
    /\ g_window = 0 /\ g_table = None /\ h_gamma_window = 0 /\ h_gamma_table = None
    /\ a_query = <<>> /\ g_gamma2_z_t = <<>> /\ result = <<>>
    /\ verifier_query = <<>> /\ c_query_1 = <<>> /\ c_query_2 = <<>> /\ b_query = <<>>
    /\ elems = NoElems
    /\ vk = None /\ ret = "running" /\ pk = None

Init ==
    /\ circuit \in Circuits
    /\ entry \in {"generate_random_parameters", "generate_parameters"}
    /\ rng \in RngStates
    /\ seed = rng
    /\ IF entry = "generate_parameters"
       THEN /\ alpha \in Alphas /\ beta \in Betas /\ gamma \in Gammas
            /\ g \in G1Elements /\ h \in G2Elements
            /\ pc = "synthesize"
       ELSE /\ alpha = 0 /\ beta = 0 /\ gamma = 0 /\ g = GZero /\ h = GZero
            /\ pc = "rand_alpha"
    /\ log = <<>>
    /\ invocation = 1
    /\ FreshLocals
    /\ first = None

\* one step of the body: from stage `at` to stage `to`; the log records the
\* stages that ran to completion, and the unwinding of a stage that panics
Step(at, to) ==
    /\ pc = at
    /\ pc' = to
    /\ log' = Append(log, IF to = "panic" THEN "unwind" ELSE at)
    /\ UNCHANGED <<inputV, seed, invocation, first>>

\* ------------------------------------ generate_random_parameters, 27 .. 33
SampleAlpha ==
    /\ Step("rand_alpha", "rand_beta")
    /\ rng' = NextRng(rng)
    /\ alpha' = FieldOf(rng')
    /\ UNCHANGED <<beta, gamma, g, h, csV, t, sapV, non_zero_a, tableV, queryV,
                   elems, outV>>

SampleBeta ==
    /\ Step("rand_beta", "one_gamma")
    /\ rng' = NextRng(rng)
    /\ beta' = FieldOf(rng')
    /\ UNCHANGED <<alpha, gamma, g, h, csV, t, sapV, non_zero_a, tableV, queryV,
                   elems, outV>>

\* mutant: gamma is drawn from the randomness source
SetGammaSampled ==
    /\ Step("one_gamma", "rand_g")
    /\ rng' = NextRng(rng)
    /\ gamma' = FieldOf(rng')
    /\ UNCHANGED <<alpha, beta, g, h, csV, t, sapV, non_zero_a, tableV, queryV,
                   elems, outV>>

SetGamma ==
    /\ Step("one_gamma", "rand_g")
    /\ gamma' = 1
    /\ UNCHANGED <<alpha, beta, g, h, rng, csV, t, sapV, non_zero_a, tableV, queryV,
                   elems, outV>>

SampleG ==
    /\ Step("rand_g", "rand_h")
    /\ rng' = NextRng(rng)
    /\ g' = GroupOf(rng')
    /\ UNCHANGED <<alpha, beta, gamma, h, csV, t, sapV, non_zero_a, tableV, queryV,
                   elems, outV>>

SampleH ==
    /\ Step("rand_h", "synthesize")
    /\ rng' = NextRng(rng)
    /\ h' = GroupOf(rng')
    /\ UNCHANGED <<alpha, beta, gamma, g, csV, t, sapV, non_zero_a, tableV, queryV,
                   elems, outV>>

\* ------------------------------------------- generate_parameters, 54 .. 84
\* mutant: the result of synthesis is not propagated
SynthesizeIgnoringError ==
    /\ Step("synthesize", "domain_new")
    /\ num_inputs' = circuit.num_inputs
    /\ num_constraints' = circuit.num_constraints
    /\ UNCHANGED <<trapV, rng, domain, t, sapV, non_zero_a, tableV, queryV, elems,
                   outV>>

\* circuit.generate_constraints(cs.clone())?, then the two counts
Synthesize ==
    /\ Step("synthesize", IF circuit.synth_ok THEN "domain_new" ELSE "done")
    /\ IF circuit.synth_ok
       THEN /\ num_inputs' = circuit.num_inputs
            /\ num_constraints' = circuit.num_constraints
            /\ ret' = ret
       ELSE /\ ret' = "Err(synthesis)"
            /\ UNCHANGED <<num_inputs, num_constraints>>
    /\ UNCHANGED <<trapV, rng, domain, t, sapV, non_zero_a, tableV, queryV, elems,
                   vk, pk>>

\* D::new(domain_size).ok_or(SynthesisError::PolynomialDegreeTooLarge)?
\* 2 * num_constraints + 2 * num_inputs - 1 stays at or above zero
DomainSizeOk == DomainSize(num_constraints, num_inputs) >= 0

\* Where the unsigned subtraction goes below zero, a build with overflow
\* checks panics and one without wraps to a size no domain has.
ConstructDomain ==
    \E overflow_checks \in BOOLEAN :
    LET size == IF DomainSizeOk
                THEN DomainNew(DomainSize(num_constraints, num_inputs))
                ELSE 0
        panics == ~DomainSizeOk /\ overflow_checks
    IN  /\ Step("domain_new",
                IF panics THEN "panic" ELSE IF size # 0 THEN "sample_t" ELSE "done")
        /\ domain' = size
        /\ ret' = IF panics \/ size # 0 THEN ret ELSE "Err(PolynomialDegreeTooLarge)"
        /\ UNCHANGED <<trapV, rng, num_inputs, num_constraints, t, sapV, non_zero_a,
                       tableV, queryV, elems, vk, pk>>

\* domain.sample_element_outside_domain(rng)
SampleT ==
    LET s == SampleOutside(domain, rng, 0)
    IN  /\ Step("sample_t", "instance_map")
        /\ t' = s[1]
        /\ rng' = s[2]
        /\ UNCHANGED <<trapV, csV, sapV, non_zero_a, tableV, queryV, elems, outV>>

\* R1CStoSAP::instance_map_with_evaluation(cs.clone(), &t)?
InstanceMap ==
    LET sap == InstanceMapWithEvaluation(circuit, domain, t)
    IN  /\ Step("instance_map", IF circuit.reducer_ok THEN "density" ELSE "done")
        /\ IF circuit.reducer_ok
           THEN /\ a' = sap.a
                /\ c' = sap.c
                /\ zt' = sap.zt
                /\ sap_num_variables' = sap.sap_num_variables
                /\ m_raw' = sap.m_raw
                /\ ret' = ret
           ELSE /\ ret' = "Err(PolynomialDegreeTooLarge)"
                /\ UNCHANGED sapV
        /\ UNCHANGED <<trapV, rng, csV, t, non_zero_a, tableV, queryV, elems, vk, pk>>

\* ------------------------------------------ generate_parameters, 86 .. 120
\* let non_zero_a = (0..sap_num_variables).map(|i| !a[i].is_zero()).sum()
ComputeDensity ==
    LET ok == sap_num_variables <= Len(a)
    IN  /\ Step("density", IF ok THEN "build_g_table" ELSE "panic")
        /\ non_zero_a' = IF ok THEN NonZeroA(a, sap_num_variables) ELSE non_zero_a
        /\ UNCHANGED <<trapV, rng, csV, t, sapV, tableV, queryV, elems, outV>>

\* the unsigned subtractions of the window-size argument stay at or above zero
GWindowArgOk == num_inputs >= 1 /\ sap_num_variables >= num_inputs - 1

\* Where a subtraction goes below zero, a build with overflow checks panics
\* and one without wraps; the wrapping sum is the number the terms add up to.
BuildGTable ==
    \E overflow_checks \in BOOLEAN :
    LET window == GetMulWindowSize(
                      GWindowScalars(num_inputs, non_zero_a, sap_num_variables, m_raw))
        panics == ~GWindowArgOk /\ overflow_checks
    IN  /\ Step("build_g_table", IF panics THEN "panic" ELSE "msm_a")
        /\ IF ~panics
           THEN /\ g_window' = window
                /\ g_table' = Some(GetWindowTable(scalar_bits, window, g))
           ELSE UNCHANGED <<g_window, g_table>>
        /\ UNCHANGED <<trapV, rng, csV, t, sapV, non_zero_a, h_gamma_window,
                       h_gamma_table, queryV, elems, outV>>

\* FixedBase::msm::<E::G1>(scalar_bits, g_window, &g_table, scalars)
MsmG1(scalars) == Msm(scalar_bits, g_window, Unwrap(g_table), scalars)

MsmA ==
    /\ Step("msm_a", "elems")
    /\ a_query' = MsmG1(AQueryScalars(a, gamma))
    /\ UNCHANGED <<trapV, rng, csV, t, sapV, non_zero_a, tableV, g_gamma2_z_t, result,
                   verifier_query, c_query_1, c_query_2, b_query, elems, outV>>

\* ----------------------------------------- generate_parameters, 125 .. 133
ComputeElems ==
    LET gz == GammaZ(zt, gamma)
        ab == AlphaBeta(alpha, beta)
        abgz == AbGammaZ(ab, gamma, zt)
        hg == GMul(h, gamma)
    IN  /\ Step("elems", "msm_gamma2_z_t")
        /\ elems' = [gamma_z |-> gz, alpha_beta |-> ab, ab_gamma_z |-> abgz,
                     g_gamma |-> GMul(g, gamma),
                     g_gamma_z |-> GMul(g, gz),
                     h_gamma |-> hg,
                     h_gamma_z |-> GMul(hg, zt),
                     g_ab_gamma_z |-> GMul(g, abgz),
                     g_gamma2_z2 |-> GMul(g, FSquare(gz))]
        /\ UNCHANGED <<trapV, rng, csV, t, sapV, non_zero_a, tableV, queryV, outV>>

\* ----------------------------------------- generate_parameters, 136 .. 172
MsmGamma2ZT ==
    /\ Step("msm_gamma2_z_t", "msm_c1")
    /\ g_gamma2_z_t' =
           MsmG1(Gamma2ZTScalars(Gamma2ZT(elems.gamma_z, gamma), t, m_raw))
    /\ UNCHANGED <<trapV, rng, csV, t, sapV, non_zero_a, tableV, a_query, result,
                   verifier_query, c_query_1, c_query_2, b_query, elems, outV>>

\* the scalars of the batch index a and c in range
C1Ok ==
    /\ C1BatchLen(sap_num_variables) <= Len(a)
    /\ C1BatchLen(sap_num_variables) <= Len(c)

\* let result = FixedBase::msm::<E::G1>(..): the third batch on the G1 table.
\* An index out of range panics while the scalars are collected, before the
\* batch; the unwinding drops the table.
MsmC1 ==
    /\ Step("msm_c1", IF C1Ok THEN "split_at" ELSE "panic")
    /\ IF C1Ok
       THEN /\ result' =
                   MsmG1(C1Scalars(a, c, gamma, elems.alpha_beta, sap_num_variables))
            /\ UNCHANGED g_table
       ELSE /\ g_table' = None
            /\ UNCHANGED result
    /\ UNCHANGED <<trapV, rng, csV, t, sapV, non_zero_a, g_window, h_gamma_window,
                   h_gamma_table, a_query, g_gamma2_z_t, verifier_query, c_query_1,
                   c_query_2, b_query, elems, outV>>

\* split_at(mid) panics where mid > len
SplitOk == num_inputs <= Len(result)

\* let (verifier_query, c_query_1) = result.split_at(num_inputs): the batch
\* is complete when the split panics, and the unwinding drops the table
SplitC1 ==
    LET halves == SplitAt(result, num_inputs)
    IN  /\ Step("split_at", IF SplitOk THEN "msm_c2" ELSE "panic")
        /\ IF SplitOk
           THEN /\ verifier_query' = halves[1]
                /\ c_query_1' = halves[2]
                /\ UNCHANGED g_table
           ELSE /\ g_table' = None
                /\ UNCHANGED <<verifier_query, c_query_1>>
        /\ UNCHANGED <<trapV, rng, csV, t, sapV, non_zero_a, g_window, h_gamma_window,
                       h_gamma_table, a_query, g_gamma2_z_t, result, c_query_2, b_query,
                       elems, outV>>

C2Ok == C2BatchLen(sap_num_variables) <= Len(a)

\* an index out of range panics while the scalars are collected; the
\* unwinding drops the table
MsmC2 ==
    /\ Step("msm_c2", IF C2Ok THEN "drop_g_table" ELSE "panic")
    /\ IF C2Ok
       THEN /\ c_query_2' =
                   MsmG1(C2Scalars(a, DoubleGamma2Z(zt, gamma), sap_num_variables))
            /\ UNCHANGED g_table
       ELSE /\ g_table' = None
            /\ UNCHANGED c_query_2
    /\ UNCHANGED <<trapV, rng, csV, t, sapV, non_zero_a, g_window, h_gamma_window,
                   h_gamma_table, a_query, g_gamma2_z_t, result, verifier_query,
                   c_query_1, b_query, elems, outV>>

\* mutant: the G1 table is kept alive
DropGTableForgotten ==
    /\ Step("drop_g_table", "build_h_table")
    /\ UNCHANGED <<trapV, rng, csV, t, sapV, non_zero_a, tableV, queryV, elems, outV>>

DropGTable ==
    /\ Step("drop_g_table", "build_h_table")
    /\ g_table' = None
    /\ UNCHANGED <<trapV, rng, csV, t, sapV, non_zero_a, g_window, h_gamma_window,
                   h_gamma_table, queryV, elems, outV>>

\* ----------------------------------------- generate_parameters, 174 .. 190
BuildHTable ==
    LET window == GetMulWindowSize(non_zero_a)
    IN  /\ Step("build_h_table", "msm_b")
        /\ h_gamma_window' = window
        /\ h_gamma_table' = Some(GetWindowTable(scalar_bits, window, elems.h_gamma))
        /\ UNCHANGED <<trapV, rng, csV, t, sapV, non_zero_a, g_window, g_table,
                       queryV, elems, outV>>

MsmB ==
    /\ Step("msm_b", "drop_h_table")
    /\ b_query' = Msm(scalar_bits, h_gamma_window, Unwrap(h_gamma_table), a)
    /\ UNCHANGED <<trapV, rng, csV, t, sapV, non_zero_a, tableV, a_query,
                   g_gamma2_z_t, result, verifier_query, c_query_1, c_query_2, elems,
                   outV>>

DropHTable ==
    /\ Step("drop_h_table", "vk")
    /\ h_gamma_table' = None
    /\ UNCHANGED <<trapV, rng, csV, t, sapV, non_zero_a, g_window, g_table,
                   h_gamma_window, queryV, elems, outV>>

\* ----------------------------------------- generate_parameters, 194 .. 231
MakeVerifyingKey ==
    LET g_alpha == GMul(g, alpha)
        h_beta == GMul(h, beta)
    IN  /\ Step("vk", "pk")
        /\ vk' = Some([h_g2 |-> IntoAffine(h),
                       g_alpha_g1 |-> IntoAffine(g_alpha),
                       h_beta_g2 |-> IntoAffine(h_beta),
                       g_gamma_g1 |-> IntoAffine(elems.g_gamma),
                       h_gamma_g2 |-> IntoAffine(elems.h_gamma),
                       query |-> NormalizeBatch(verifier_query)])
        /\ UNCHANGED <<trapV, rng, csV, t, sapV, non_zero_a, tableV, queryV, elems,
                       ret, pk>>

ReturnProvingKey ==
    /\ Step("pk", "done")
    /\ pk' = Some([vk |-> Unwrap(vk),
                   a_query |-> NormalizeBatch(a_query),
                   b_query |-> NormalizeBatch(b_query),
                   c_query_1 |-> NormalizeBatch(c_query_1),
                   c_query_2 |-> NormalizeBatch(c_query_2),
                   g_gamma_z |-> IntoAffine(elems.g_gamma_z),
                   h_gamma_z |-> IntoAffine(elems.h_gamma_z),
                   g_ab_gamma_z |-> IntoAffine(elems.g_ab_gamma_z),
                   g_gamma2_z2 |-> IntoAffine(elems.g_gamma2_z2),
                   g_gamma2_z_t |-> NormalizeBatch(g_gamma2_z_t)])
    /\ ret' = "Ok"
    /\ UNCHANGED <<trapV, rng, csV, t, sapV, non_zero_a, tableV, queryV, elems, vk>>

\* a further invocation of generate_parameters with the same circuit and
\* trapdoor, and a randomness source in any state
Reinvoke ==
    /\ pc = "done"
    /\ invocation < MaxInvocations
    /\ invocation' = invocation + 1
    /\ first' = IF first = None THEN Some([ret |-> ret, pk |-> pk, t |-> t, seed |-> seed]) ELSE first
    /\ rng' \in RngStates
    /\ seed' = rng'
    /\ pc' = "synthesize"
    /\ log' = <<>>
    /\ num_inputs' = 0 /\ num_constraints' = 0 /\ domain' = 0 /\ t' = 0
    /\ a' = <<>> /\ c' = <<>> /\ zt' = 0 /\ sap_num_variables' = 0 /\ m_raw' = 0
    /\ non_zero_a' = 0
    /\ g_window' = 0 /\ g_table' = None /\ h_gamma_window' = 0
    /\ h_gamma_table' = None
    /\ a_query' = <<>> /\ g_gamma2_z_t' = <<>> /\ result' = <<>>
    /\ verifier_query' = <<>> /\ c_query_1' = <<>> /\ c_query_2' = <<>>
    /\ b_query' = <<>>
    /\ elems' = NoElems
    /\ vk' = None /\ ret' = "running" /\ pk' = None
    /\ UNCHANGED <<inputV, trapV>>

Next ==
    \/ SampleAlpha \/ SampleBeta \/ SetGamma \/ SampleG \/ SampleH
    \/ Synthesize \/ ConstructDomain \/ SampleT \/ InstanceMap
    \/ ComputeDensity \/ BuildGTable \/ MsmA \/ ComputeElems \/ MsmGamma2ZT
    \/ MsmC1 \/ SplitC1 \/ MsmC2 \/ DropGTable \/ BuildHTable \/ MsmB \/ DropHTable
    \/ MakeVerifyingKey \/ ReturnProvingKey
    \/ Reinvoke

Spec == Init /\ [][Next]_vars

\* ------------------------------------------------------------- the claims
Occurs(e) == \E i \in 1 .. Len(log) : log[i] = e
Count(e) == Cardinality({i \in 1 .. Len(log) : log[i] = e})
Before(e1, e2) == \E i, j \in 1 .. Len(log) : i < j /\ log[i] = e1 /\ log[j] = e2
G1Batches == {"msm_a", "msm_gamma2_z_t", "msm_c1", "msm_c2"}
CountIn(S) == Cardinality({i \in 1 .. Len(log) : log[i] \in S})
Key == Unwrap(pk)
\* the canonical form of the multiple of a group element by a scalar
Naive(base, s) == FMul(IntoAffine(base), s)
C1Scalar(i) == FAdd(FMul(c[i], gamma), FMul(a[i], FAdd(alpha, beta)))

\* C1: in each of the five batches, output element i is the naive scalar
\* multiple of the batch's base (g, or h^gamma for the B-query) by scalar i,
\* for every scalar of the field.
C1_MsmEqualsNaive ==
    ret = "Ok" =>
        /\ \A i \in 1 .. Len(a_query) :
              IntoAffine(a_query[i]) = Naive(g, FMul(a[i], gamma))
        /\ \A i \in 1 .. Len(g_gamma2_z_t) :
              IntoAffine(g_gamma2_z_t[i])
                  = Naive(g, FMul(FMul(FSquare(gamma), zt), FPow(t, i - 1)))
        /\ \A i \in 1 .. Len(result) :
              IntoAffine(result[i]) = Naive(g, C1Scalar(i))
        /\ \A i \in 1 .. Len(c_query_2) :
              IntoAffine(c_query_2[i])
                  = Naive(g, FMul(a[i], FDouble(FMul(FSquare(gamma), zt))))
        /\ \A i \in 1 .. Len(b_query) :
              IntoAffine(b_query[i]) = Naive(h, FMul(gamma, a[i]))

\* C2, as stated: in the returned key a_query and c_query_2 each have
\* length sap_num_variables (a and c having length sap_num_variables + 1).
C2_LengthIsSapNumVariables ==
    (ret = "Ok" /\ Len(a) = sap_num_variables + 1 /\ Len(c) = sap_num_variables + 1) =>
        /\ Len(Key.a_query) = sap_num_variables
        /\ Len(Key.c_query_2) = sap_num_variables

\* C2, amended: in the returned key a_query and c_query_2 each have length
\* sap_num_variables + 1, one element per entry of a.
C2_LengthIsSapNumVariablesPlusOne ==
    (ret = "Ok" /\ Len(a) = sap_num_variables + 1 /\ Len(c) = sap_num_variables + 1) =>
        /\ Len(Key.a_query) = sap_num_variables + 1
        /\ Len(Key.c_query_2) = sap_num_variables + 1
        /\ Len(Key.a_query) = Len(a)

C2_Witness ==
    /\ ret = "Ok"
    /\ sap_num_variables >= 1
    /\ Len(a) = sap_num_variables + 1
    /\ Len(Key.a_query) = 1 + sap_num_variables

\* C3: the C-query-1 batch has one element per index 0..=sap_num_variables,
\* element i for the scalar c[i]*gamma + a[i]*(alpha+beta); vk.query is its
\* first num_inputs elements, c_query_1 the remaining ones in order: the two
\* concatenated are the whole batch.
C3_SplitAtNumInputs ==
    /\ Occurs("msm_c1") =>
        /\ Len(result) = sap_num_variables + 1
        /\ \A i \in 1 .. Len(result) :
              C1Scalar(i) < 2^scalar_bits =>
                  IntoAffine(result[i]) = Naive(g, C1Scalar(i))
    /\ Occurs("split_at") =>
        /\ Len(verifier_query) = num_inputs
        /\ Len(c_query_1) = sap_num_variables - num_inputs + 1
        /\ verifier_query \o c_query_1 = result
    /\ ret = "Ok" =>
        /\ Len(Key.vk.query) = num_inputs
        /\ Len(Key.c_query_1) = sap_num_variables - num_inputs + 1
        /\ Key.vk.query \o Key.c_query_1 = NormalizeBatch(result)

C3_Witness ==
    /\ ret = "Ok"
    /\ num_inputs = 2
    /\ Len(Key.c_query_1) >= 1
    /\ \E i \in 1 .. Len(result) : C1Scalar(i) < 2^scalar_bits /\ C1Scalar(i) # 0
    /\ Key.vk.query # Key.c_query_1

\* C4, as stated: two invocations of generate_parameters with identical
\* (circuit, alpha, beta, gamma, g, h) return identical results, whatever
\* the state of the randomness source passed to each.
C4_SameKeyWhateverRng ==
    (first # None /\ pc = "done") =>
        /\ ret = Unwrap(first).ret
        /\ pk = Unwrap(first).pk

\* C4, amended: two invocations with identical (circuit, alpha, beta, gamma,
\* g, h) return the same outcome, and identical keys whenever the point t
\* sampled from the randomness source is the same in both.
C4_SameKeyForSameT ==
    (first # None /\ pc = "done") =>
        /\ ret = Unwrap(first).ret
        /\ (ret = "Ok" /\ t = Unwrap(first).t) => pk = Unwrap(first).pk
        /\ ret # "Ok" => pk = Unwrap(first).pk

C4_Witness ==
    /\ first # None
    /\ pc = "done"
    /\ ret = "Ok"
    /\ t = Unwrap(first).t
    /\ seed # Unwrap(first).seed
    /\ pk = Unwrap(first).pk

LaterStages ==
    {"sample_t", "instance_map", "density", "build_g_table", "msm_a", "elems",
     "msm_gamma2_z_t", "msm_c1", "split_at", "msm_c2", "drop_g_table",
     "build_h_table", "msm_b",
     "drop_h_table", "vk", "pk"}

\* the state of the randomness source when generate_parameters is entered
RngAtCall ==
    IF entry = "generate_random_parameters" /\ invocation = 1
    THEN NextRng(NextRng(NextRng(NextRng(seed)))) ELSE seed

\* C5: a synthesis error is returned as it is, before the domain is built, t
\* sampled, the SAP reduction run, a table built or a multiplication made; a
\* missing domain gives PolynomialDegreeTooLarge before t is sampled and
\* before any of the later stages; no error outcome (a failure of the SAP
\* reducer included) carries a key.
C5_FailureAbortsEarly ==
    /\ (pc = "done" /\ ~circuit.synth_ok) =>
          /\ ret = "Err(synthesis)"
          /\ ~Occurs("domain_new") /\ CountIn(LaterStages) = 0
          /\ domain = 0 /\ t = 0 /\ rng = RngAtCall
    /\ (pc = "done" /\ circuit.synth_ok
            /\ DomainNew(DomainSize(circuit.num_constraints, circuit.num_inputs)) = 0) =>
          /\ ret = "Err(PolynomialDegreeTooLarge)"
          /\ CountIn(LaterStages) = 0
          /\ t = 0 /\ rng = RngAtCall
    /\ (pc = "done" /\ ret # "Ok") =>
          /\ pk = None /\ vk = None
          /\ CountIn(LaterStages \ {"sample_t", "instance_map"}) = 0
          /\ a = <<>> /\ c = <<>> /\ g_table = None /\ h_gamma_table = None
          /\ a_query = <<>> /\ b_query = <<>> /\ result = <<>> /\ c_query_2 = <<>>
          /\ g_gamma2_z_t = <<>> /\ elems = NoElems

C5_Witness ==
    /\ pc = "done"
    /\ ret = "Err(PolynomialDegreeTooLarge)"
    /\ Occurs("domain_new")
    /\ num_constraints = TooManyConstraints

RECURSIVE RngAfter(_, _)
\* the state of the randomness source k draws after state r
RngAfter(r, k) == IF k = 0 THEN r ELSE RngAfter(NextRng(r), k - 1)

RandOrder == <<"rand_alpha", "rand_beta", "one_gamma", "rand_g", "rand_h">>
RandDraws == {"rand_alpha", "rand_beta", "rand_g", "rand_h"}

\* what C6 says of the draws apart from the failed runs
DrawOrder ==
    (entry = "generate_random_parameters" /\ invocation = 1) =>
        /\ \A k \in 1 .. Len(log) : k <= 5 => log[k] = RandOrder[k]
        /\ \A k \in 1 .. Len(log) : k > 5 => log[k] \notin RandDraws \cup {"one_gamma"}
        /\ Occurs("rand_alpha") => alpha = FieldOf(RngAfter(seed, 1))
        /\ Occurs("rand_beta") => beta = FieldOf(RngAfter(seed, 2))
        /\ Occurs("one_gamma") => gamma = 1
        /\ Occurs("rand_g") => g = GroupOf(RngAfter(seed, 3))
        /\ Occurs("rand_h") => h = GroupOf(RngAfter(seed, 4))
        /\ ~Occurs("sample_t") => rng = RngAfter(seed, CountIn(RandDraws))
        /\ Occurs("sample_t") =>
              /\ Count("sample_t") = 1
              /\ Before("rand_h", "synthesize")
              /\ Before("synthesize", "domain_new")
              /\ Before("domain_new", "sample_t")
              /\ circuit.synth_ok /\ domain # 0
              /\ rng = SampleOutside(domain, RngAfter(seed, 4), 0)[2]
              /\ t = FieldOf(rng)

\* C6, as stated: generate_random_parameters draws alpha, beta, g, h from the
\* randomness source in that order, one draw each, with gamma fixed to one,
\* and generate_parameters runs with those values; afterwards the source is
\* used only by the one sampling call for t, made after synthesis and the
\* domain construction have succeeded, and not at all on a failed run.
C6_NoDrawOnAnyFailedRun ==
    /\ DrawOrder
    /\ (entry = "generate_random_parameters" /\ invocation = 1
            /\ pc = "done" /\ ret # "Ok") =>
          ~Occurs("sample_t") /\ rng = RngAfter(seed, 4)

\* C6, amended: as stated, except that only a run failing in synthesis or in
\* the domain construction draws nothing for t; a run failing in the SAP
\* reduction has made the one sampling call for t before it fails.
C6_SequentialDraws ==
    /\ DrawOrder
    /\ (entry = "generate_random_parameters" /\ invocation = 1
            /\ pc = "done" /\ ret # "Ok") =>
          /\ ~Occurs("instance_map") =>
                ~Occurs("sample_t") /\ rng = RngAfter(seed, 4)
          /\ Occurs("instance_map") =>
                /\ Count("sample_t") = 1
                /\ ~circuit.reducer_ok
                /\ rng = SampleOutside(domain, RngAfter(seed, 4), 0)[2]

C6_Witness ==
    /\ entry = "generate_random_parameters"
    /\ invocation = 1
    /\ ret = "Ok"
    /\ Occurs("sample_t")
    /\ rng # RngAfter(seed, 4)
    /\ alpha # beta

\* Z(t), recomputed from the returned t and the size of the domain
ZOfT == FSub(FPow(t, NextPowerOfTwo(DomainSize(num_constraints, num_inputs), 1)), 1)

\* C7: the single elements of the key are g^((alpha+beta)*gamma*Z(t)),
\* g^(gamma*Z(t)), g^((gamma*Z(t))^2), g^gamma, h^gamma, g^alpha, h^beta and
\* h, and h_gamma_z, computed as (h^gamma)^Z(t), is h^(gamma*Z(t)).
C7_AlgebraicConsistency ==
    ret = "Ok" =>
        /\ Key.g_ab_gamma_z = Naive(g, FMul(FAdd(alpha, beta), FMul(gamma, ZOfT)))
        /\ Key.g_gamma_z = Naive(g, FMul(gamma, ZOfT))
        /\ Key.g_gamma2_z2 = Naive(g, FMul(FMul(gamma, ZOfT), FMul(gamma, ZOfT)))
        /\ Key.vk.g_gamma_g1 = Naive(g, gamma)
        /\ Key.vk.h_gamma_g2 = Naive(h, gamma)
        /\ Key.vk.g_alpha_g1 = Naive(g, alpha)
        /\ Key.vk.h_beta_g2 = Naive(h, beta)
        /\ Key.vk.h_g2 = IntoAffine(h)
        /\ Key.h_gamma_z = Naive(h, FMul(gamma, ZOfT))
        /\ Key.h_gamma_z = FMul(Key.vk.h_gamma_g2, ZOfT)

C7_Witness ==
    /\ ret = "Ok"
    /\ gamma # 1
    /\ alpha = 5000
    /\ g[2] # 1
    /\ Key.g_ab_gamma_z # 0
    /\ Key.g_ab_gamma_z # Key.g_gamma_z

\* what C8 says of the tables apart from the number of batches of each; a
\* table lives from its construction to its drop, or to the unwinding of a
\* panic
TableLifecycle ==
    /\ Count("build_g_table") <= 1 /\ Count("build_h_table") <= 1
    /\ Count("drop_g_table") <= 1 /\ Count("drop_h_table") <= 1
    /\ ret = "Ok" => Count("build_g_table") = 1 /\ Count("build_h_table") = 1
    /\ g_table # None <=>
          (Occurs("build_g_table") /\ ~Occurs("drop_g_table") /\ ~Occurs("unwind"))
    /\ h_gamma_table # None <=>
          (Occurs("build_h_table") /\ ~Occurs("drop_h_table") /\ ~Occurs("unwind"))
    /\ Occurs("unwind") <=> pc = "panic"
    /\ Occurs("unwind") => ~Occurs("drop_g_table")
    /\ g_table # None => g_table = Some(GetWindowTable(scalar_bits, g_window, g))
    /\ h_gamma_table # None =>
          h_gamma_table = Some(GetWindowTable(scalar_bits, h_gamma_window, elems.h_gamma))
    /\ \A k \in 1 .. Len(log) :
          log[k] \in G1Batches =>
              /\ \E j \in 1 .. k - 1 : log[j] = "build_g_table"
              /\ \A j \in 1 .. k - 1 : log[j] # "drop_g_table"
    /\ \A k \in 1 .. Len(log) :
          log[k] = "msm_b" =>
              /\ \E j \in 1 .. k - 1 : log[j] = "build_h_table"
              /\ \A j \in 1 .. k - 1 : log[j] # "drop_h_table"
    /\ pc = "msm_b" => (g_table = None /\ h_gamma_table # None)
    /\ Occurs("build_h_table") => (Before("drop_g_table", "build_h_table") /\ g_table = None)

\* C8, as stated: two tables, each built once and never changed, each used
\* for one batch of multiplications and then dropped, never used before it is
\* built or after it is dropped, the G2 table built after the G1 table is
\* dropped.
C8_OneBatchPerTable ==
    /\ TableLifecycle
    /\ Occurs("drop_g_table") => CountIn(G1Batches) = 1
    /\ Occurs("drop_h_table") => Count("msm_b") = 1

\* C8, amended: as stated, except that the G1 table is used for four batches
\* (A-query, g_gamma2_z_t, C-query 1, C-query 2) before it is dropped; the G2
\* table is used for one (B-query).  A run that panics never reaches the
\* drop: the unwinding discards the G1 table after the batches made so far.
C8_FourBatchesThenOne ==
    /\ TableLifecycle
    /\ Occurs("drop_g_table") =>
          /\ CountIn(G1Batches) = 4
          /\ \A e \in G1Batches : Count(e) = 1
    /\ Occurs("drop_h_table") => Count("msm_b") = 1

C8_Witness ==
    /\ ret = "Ok"
    /\ Occurs("drop_h_table")
    /\ Before("drop_g_table", "build_h_table")
    /\ CountIn(G1Batches) = 4
    /\ g_table = None /\ h_gamma_table = None

\* C9: non_zero_a is the number of indices i in 0..=sap_num_variables with
\* a[i] # 0.
C9_CountsEveryIndex ==
    (Occurs("density") /\ Len(a) = sap_num_variables + 1) =>
        non_zero_a = Cardinality({i \in 1 .. sap_num_variables + 1 : a[i] # 0})

\* the reducer has returned a and c of length sap_num_variables + 1, and
\* num_inputs >= 1
ReducerReturned ==
    /\ Occurs("instance_map")
    /\ Len(a) = sap_num_variables + 1
    /\ Len(c) = sap_num_variables + 1
    /\ num_inputs >= 1

\* every remaining step completes and Ok is returned: no index of a or c is
\* out of range, no unsigned subtraction of the window-size argument goes
\* below zero, and the split is within the batch
AssemblyCompletes ==
    /\ pc # "panic"
    /\ sap_num_variables <= Len(a)
    /\ GWindowArgOk
    /\ C1Ok
    /\ num_inputs <= sap_num_variables + 1
    /\ Occurs("msm_c1") => SplitOk
    /\ C2Ok
    /\ pc = "done" => ret = "Ok"

\* C10 as stated: once the SAP reducer has returned a and c of length
\* sap_num_variables + 1, with num_inputs >= 1, every remaining step
\* completes and Ok is returned.  It fails where the reducer reports fewer
\* than num_inputs - 1 variables: sap_num_variables - (num_inputs - 1) goes
\* below zero (101), and a build that wraps there reaches split_at with
\* num_inputs greater than the batch length (157).
C10_AssemblyCannotFail == ReducerReturned => AssemblyCompletes

\* C10 amended: once the SAP reducer has returned a and c of length
\* sap_num_variables + 1, with num_inputs >= 1 and
\* sap_num_variables >= num_inputs - 1, every remaining step completes and
\* Ok is returned, on a build with overflow checks and on one without.
C10_AssemblyCannotFailGivenEnoughVariables ==
    (ReducerReturned /\ sap_num_variables >= num_inputs - 1) => AssemblyCompletes

\* a run that returns Ok at the boundary sap_num_variables = num_inputs - 1,
\* where the subtraction gives zero and the split takes the whole batch
C10_Witness ==
    /\ ret = "Ok"
    /\ ReducerReturned
    /\ num_inputs = 2
    /\ sap_num_variables = num_inputs - 1
    /\ Len(verifier_query) = num_inputs
    /\ Len(c_query_1) = 0

====
